---- MODULE Spec2Model ----
(***************************************************************************)
(* Address normalisation engine of address_standardizer.py and            *)
(* address_standardizer_with_usps.py (the latter also holds the           *)
(* full-address parser).  A text is a TLA+ string; every function of the   *)
(* source is an operator over strings that works character by character,   *)
(* and every regular expression is an explicit matcher.  The character     *)
(* classes are the ASCII part of Python's \w, \s and \d.                   *)
(***************************************************************************)
EXTENDS Integers, Sequences, FiniteSets, TLC

(***************************************************************************)
(* Characters and the str / re primitives the source uses.                 *)
(***************************************************************************)
UPPER == {"A","B","C","D","E","F","G","H","I","J","K","L","M",
          "N","O","P","Q","R","S","T","U","V","W","X","Y","Z"}
LOWER == {"a","b","c","d","e","f","g","h","i","j","k","l","m",
          "n","o","p","q","r","s","t","u","v","w","x","y","z"}
DIGIT == {"0","1","2","3","4","5","6","7","8","9"}
WORD  == UPPER \cup LOWER \cup DIGIT \cup {"_"}
SPACE == {" ", "\t", "\n", "\r"}

UpperOf ==
  "a" :> "A" @@ "b" :> "B" @@ "c" :> "C" @@ "d" :> "D" @@ "e" :> "E" @@
  "f" :> "F" @@ "g" :> "G" @@ "h" :> "H" @@ "i" :> "I" @@ "j" :> "J" @@
  "k" :> "K" @@ "l" :> "L" @@ "m" :> "M" @@ "n" :> "N" @@ "o" :> "O" @@
  "p" :> "P" @@ "q" :> "Q" @@ "r" :> "R" @@ "s" :> "S" @@ "t" :> "T" @@
  "u" :> "U" @@ "v" :> "V" @@ "w" :> "W" @@ "x" :> "X" @@ "y" :> "Y" @@
  "z" :> "Z"

\* s[i-1] of Python, or "" outside the string
Ch(s, i) == IF i >= 1 /\ i <= Len(s) THEN SubSeq(s, i, i) ELSE ""

\* s[i-1:] of Python
From(s, i) == SubSeq(s, i, Len(s))

RECURSIVE upper(_)
upper(s) ==
  IF s = "" THEN ""
  ELSE (IF Head(s) \in LOWER THEN UpperOf[Head(s)] ELSE Head(s)) \o upper(Tail(s))

RECURSIVE lstrip(_)
lstrip(s) == IF s # "" /\ Head(s) \in SPACE THEN lstrip(Tail(s)) ELSE s

RECURSIVE rstrip(_)
rstrip(s) ==
  IF s # "" /\ Ch(s, Len(s)) \in SPACE THEN rstrip(SubSeq(s, 1, Len(s) - 1)) ELSE s

strip(s) == rstrip(lstrip(s))

\* str.replace(old, new): every non-overlapping occurrence, left to right
RECURSIVE replace(_, _, _)
replace(s, old, new) ==
  IF Len(s) < Len(old) THEN s
  ELSE IF SubSeq(s, 1, Len(old)) = old
       THEN new \o replace(From(s, Len(old) + 1), old, new)
       ELSE Head(s) \o replace(Tail(s), old, new)

\* re.sub(r"[^...]", "", s): only the characters of keep stay
RECURSIVE KeepOnly(_, _)
KeepOnly(s, keep) ==
  IF s = "" THEN ""
  ELSE (IF Head(s) \in keep THEN Head(s) ELSE "") \o KeepOnly(Tail(s), keep)

\* str.split(sep) for a one-character separator
RECURSIVE split(_, _)
split(s, sep) ==
  IF \E i \in 1..Len(s) : Ch(s, i) = sep
  THEN LET i == CHOOSE i \in 1..Len(s) :
                  Ch(s, i) = sep /\ \A j \in 1..(i - 1) : Ch(s, j) # sep
       IN  <<SubSeq(s, 1, i - 1)>> \o split(From(s, i + 1), sep)
  ELSE <<s>>

\* first index >= i that holds no whitespace (Len(s)+1 when there is none)
RECURSIVE SkipSpaces(_, _)
SkipSpaces(s, i) == IF Ch(s, i) \in SPACE THEN SkipSpaces(s, i + 1) ELSE i

\* last index of the maximal run of characters of set that starts at i (i-1: empty run)
RECURSIVE RunEnd(_, _, _)
RunEnd(s, i, set) == IF Ch(s, i) \in set THEN RunEnd(s, i + 1, set) ELSE i - 1

\* str.split(): the maximal runs of non-whitespace
RECURSIVE split_ws(_)
split_ws(s) ==
  LET t == lstrip(s) IN
  IF t = "" THEN <<>>
  ELSE LET n == CHOOSE n \in 1..Len(t) :
                  /\ \A j \in 1..n : Ch(t, j) \notin SPACE
                  /\ (n = Len(t) \/ Ch(t, n + 1) \in SPACE)
       IN  <<SubSeq(t, 1, n)>> \o split_ws(From(t, n + 1))

\* sep.join(seq)
RECURSIVE join(_, _)
join(sep, seq) ==
  IF seq = <<>> THEN ""
  ELSE IF Len(seq) = 1 THEN seq[1]
  ELSE seq[1] \o sep \o join(sep, Tail(seq))

\* \b between s[p-1] and s[p] of Python (p characters lie before the position)
AtWordBoundary(s, p) == (Ch(s, p) \in WORD) # (Ch(s, p + 1) \in WORD)

\* the upper-case literal lit matches at index i under re.IGNORECASE
IMatch(s, i, lit) ==
  /\ i >= 1
  /\ i + Len(lit) - 1 <= Len(s)
  /\ upper(SubSeq(s, i, i + Len(lit) - 1)) = lit

\* least / greatest element of a non-empty set of integers
Min(S) == CHOOSE i \in S : \A j \in S : i <= j
Max(S) == CHOOSE i \in S : \A j \in S : j <= i

\* p + 1 when the optional character c stands at index p, else p  (c? of a pattern)
AfterOptional(s, p, c) == IF Ch(s, p) = c THEN p + 1 ELSE p

\* Optional[str]
None == [some |-> FALSE]
Some(x) == [some |-> TRUE, val |-> x]

(***************************************************************************)
(* Module-level regular expressions.  A matcher "..._at(s, i)" tries the    *)
(* pattern at index i and gives the index of the match's last character,    *)
(* or 0 when the pattern does not match there.                              *)
(***************************************************************************)
\* NON_ALNUM_RE.sub("", t)
NON_ALNUM_RE_sub(t) == KeepOnly(t, WORD \cup SPACE \cup {"#", "-"})

\* MULTISPACE_RE.sub(" ", s)
RECURSIVE MULTISPACE_RE_sub(_)
MULTISPACE_RE_sub(s) ==
  IF s = "" THEN ""
  ELSE IF Head(s) \in SPACE THEN " " \o MULTISPACE_RE_sub(lstrip(s))
  ELSE Head(s) \o MULTISPACE_RE_sub(Tail(s))

\* POBOX_RE = \bP\.?O\.?\s*BOX\b  (IGNORECASE): the part BOX\b at index b
POBOX_RE_box(s, b) ==
  IF IMatch(s, b, "BOX") /\ AtWordBoundary(s, b + 2) THEN b + 2 ELSE 0

\* the part O\.?\s* at index o, then the rest
POBOX_RE_o(s, o) ==
  IF IMatch(s, o, "O")
  THEN POBOX_RE_box(s, SkipSpaces(s, AfterOptional(s, o + 1, ".")))
  ELSE 0

POBOX_RE_at(s, i) ==
  IF AtWordBoundary(s, i - 1) /\ IMatch(s, i, "P")
  THEN POBOX_RE_o(s, AfterOptional(s, i + 1, "."))
  ELSE 0

POBOX_RE_search(s) == \E i \in 1..Len(s) : POBOX_RE_at(s, i) # 0

\* POBOX_RE.sub(repl, s) from index i on, e the outcome of the pattern at i
RECURSIVE POBOX_RE_sub_from(_, _, _)
POBOX_RE_sub_step(repl, s, i, e) ==
  IF e # 0 THEN repl \o POBOX_RE_sub_from(repl, s, e + 1)
  ELSE Ch(s, i) \o POBOX_RE_sub_from(repl, s, i + 1)

POBOX_RE_sub_from(repl, s, i) ==
  IF i > Len(s) THEN "" ELSE POBOX_RE_sub_step(repl, s, i, POBOX_RE_at(s, i))

POBOX_RE_sub(repl, s) == POBOX_RE_sub_from(repl, s, 1)

UNIT_DESIGNATORS ==
  <<"APT", "APARTMENT", "UNIT", "STE", "SUITE", "FL", "FLOOR", "RM", "ROOM", "#">>

\* [A-Z0-9-] under re.IGNORECASE
VALUE == UPPER \cup LOWER \cup DIGIT \cup {"-"}

\* index where the value group starts when the designator ends at index d:
\* the part  \.?\s*#?:?\s*  of both unit patterns
ValueStart(s, d) ==
  SkipSpaces(s,
    AfterOptional(s, AfterOptional(s, SkipSpaces(s, AfterOptional(s, d + 1, ".")), "#"), ":"))

\* the pairs <<i, k>>: a match starts at index i with the k-th designator alternative
Alternatives(a) == (1..Len(a)) \X (1..Len(UNIT_DESIGNATORS))

\* re.search picks the leftmost start and there the first alternative that matches
FirstHit(hits) ==
  CHOOSE h \in hits :
    \A g \in hits : h[1] < g[1] \/ (h[1] = g[1] /\ h[2] <= g[2])

\* trailing_unit_re = \b(designator)\.?\s*#?:?\s*(value)$ : the value group from
\* index v to the end of the text (the text searched is stripped, so $ is its end)
trailing_unit_re_value(a, v) ==
  IF v <= Len(a) /\ RunEnd(a, v, VALUE) = Len(a) THEN Len(a) ELSE 0

trailing_unit_re_at(a, i, D) ==
  IF AtWordBoundary(a, i - 1) /\ IMatch(a, i, D)
  THEN trailing_unit_re_value(a, ValueStart(a, i + Len(D) - 1))
  ELSE 0

\* the match object of the hit h = <<i, k>>
trailing_unit_re_group(a, i, D) ==
  [found |-> TRUE, start |-> i,
   designator |-> SubSeq(a, i, i + Len(D) - 1),
   value |-> From(a, ValueStart(a, i + Len(D) - 1))]

trailing_unit_re_first(a, hits) ==
  IF hits = {} THEN [found |-> FALSE]
  ELSE trailing_unit_re_group(a, FirstHit(hits)[1], UNIT_DESIGNATORS[FirstHit(hits)[2]])

\* trailing_unit_re.search(a)
trailing_unit_re_search(a) ==
  trailing_unit_re_first(a,
    {h \in Alternatives(a) : trailing_unit_re_at(a, h[1], UNIT_DESIGNATORS[h[2]]) # 0})

\* mid_unit_re = (?:,|\s)\s*(designator)\.?\s*#?:?\s*(value)\b : the greedy value
\* group from index v gives back characters until \b holds behind it
mid_unit_re_ends(a, v) == {e \in v..RunEnd(a, v, VALUE) : AtWordBoundary(a, e)}

mid_unit_re_last(ends) == IF ends = {} THEN 0 ELSE Max(ends)

\* the designator alternative D at index j, then the value
mid_unit_re_designator(a, j, D) ==
  IF IMatch(a, j, D)
  THEN mid_unit_re_last(mid_unit_re_ends(a, ValueStart(a, j + Len(D) - 1)))
  ELSE 0

mid_unit_re_at(a, i, D) ==
  IF Ch(a, i) \in SPACE \cup {","}
  THEN mid_unit_re_designator(a, SkipSpaces(a, i + 1), D)
  ELSE 0

\* the match object of a match that starts at i, has its designator D at j and ends at e
mid_unit_re_group(a, i, j, D, e) ==
  [found |-> TRUE, start |-> i, end |-> e,
   designator |-> SubSeq(a, j, j + Len(D) - 1),
   value |-> SubSeq(a, ValueStart(a, j + Len(D) - 1), e)]

mid_unit_re_hit(a, i, D) ==
  mid_unit_re_group(a, i, SkipSpaces(a, i + 1), D, mid_unit_re_at(a, i, D))

mid_unit_re_first(a, hits) ==
  IF hits = {} THEN [found |-> FALSE]
  ELSE mid_unit_re_hit(a, FirstHit(hits)[1], UNIT_DESIGNATORS[FirstHit(hits)[2]])

\* mid_unit_re.search(a)
mid_unit_re_search(a) ==
  mid_unit_re_first(a,
    {h \in Alternatives(a) : mid_unit_re_at(a, h[1], UNIT_DESIGNATORS[h[2]]) # 0})

(***************************************************************************)
(* Lookup tables.  A dict is the sequence of its items in insertion order.  *)
(***************************************************************************)
\* DIR_MAP, in insertion order (the same in the three copies)
DIR_MAP ==
  << <<"NORTH", "N">>, <<"SOUTH", "S">>, <<"EAST", "E">>, <<"WEST", "W">>,
     <<"NORTHEAST", "NE">>, <<"NORTHWEST", "NW">>, <<"SOUTHEAST", "SE">>,
     <<"SOUTHWEST", "SW">>, <<"N.", "N">>, <<"S.", "S">>, <<"E.", "E">>,
     <<"W.", "W">> >>

\* SUFFIX_MAP of address_standardizer.py and of the full-address parser
SUFFIX_MAP ==
  << <<"STREET", "ST">>, <<"AVENUE", "AVE">>, <<"ROAD", "RD">>,
     <<"DRIVE", "DR">>, <<"BOULEVARD", "BLVD">>, <<"COURT", "CT">>,
     <<"LANE", "LN">>, <<"TERRACE", "TER">>, <<"PLACE", "PL">>,
     <<"CIRCLE", "CIR">> >>

\* SUFFIX_MAP of address_standardizer_with_usps.py
SUFFIX_MAP_usps ==
  << <<"ALLEE", "ALY">>, <<"ALLEY", "ALY">>, <<"ALLY", "ALY">>,
     <<"ANEX", "ANX">>, <<"ANNEX", "ANX">>, <<"ARCADE", "ARC">>,
     <<"AVENUE", "AVE">>, <<"AVEN", "AVE">>, <<"AVN", "AVE">>,
     <<"BAYOU", "BYU">>, <<"BEACH", "BCH">>, <<"BEND", "BND">>,
     <<"BLUFF", "BLF">>, <<"BOULEVARD", "BLVD">>, <<"BOUL", "BLVD">>,
     <<"BRANCH", "BR">>, <<"BRIDGE", "BRG">>, <<"BROOK", "BRK">>,
     <<"BURG", "BG">>, <<"BYPASS", "BYP">>, <<"CAMP", "CP">>,
     <<"CANYON", "CYN">>, <<"CAPE", "CPE">>, <<"CAUSEWAY", "CSWY">>,
     <<"CENTER", "CTR">>, <<"CIRCLE", "CIR">>, <<"CLIFF", "CLF">>,
     <<"CLUB", "CLB">>, <<"COMMON", "CMN">>, <<"CORNER", "COR">>,
     <<"COURSE", "CRSE">>, <<"COURT", "CT">>, <<"COVE", "CV">>,
     <<"CREEK", "CRK">>, <<"CRESCENT", "CRES">>, <<"CROSSING", "XING">>,
     <<"DALE", "DL">>, <<"DAM", "DM">>, <<"DIVIDE", "DV">>, <<"DRIVE", "DR">>,
     <<"ESTATE", "EST">>, <<"EXPRESSWAY", "EXPY">>, <<"EXTENSION", "EXT">>,
     <<"FALLS", "FLS">>, <<"FERRY", "FRY">>, <<"FIELD", "FLD">>,
     <<"FLAT", "FLT">>, <<"FORD", "FRD">>, <<"FOREST", "FRST">>,
     <<"FORGE", "FGR">>, <<"FORWARD", "FWD">>, <<"GARDEN", "GDN">>,
     <<"GATEWAY", "GTWY">>, <<"GLEN", "GLN">>, <<"GREEN", "GRN">>,
     <<"GROVE", "GRV">>, <<"HARBOR", "HBR">>, <<"HAVEN", "HVN">>,
     <<"HEIGHTS", "HTS">>, <<"HIGHWAY", "HWY">>, <<"HILL", "HL">>,
     <<"HOLLOW", "HOLW">>, <<"INLET", "INLT">>, <<"ISLAND", "IS">>,
     <<"ISLE", "ISLE">>, <<"JUNCTION", "JCT">>, <<"KEY", "KY">>,
     <<"KNOLL", "KNL">>, <<"LAKE", "LK">>, <<"LANDING", "LNDG">>,
     <<"LANE", "LN">>, <<"LIGHT", "LGT">>, <<"LOAF", "LF">>, <<"LOCK", "LCK">>,
     <<"LODGE", "LDG">>, <<"LOOP", "LOOP">>, <<"MALL", "MALL">>,
     <<"MANOR", "MNR">>, <<"MEADOW", "MDW">>, <<"MILL", "ML">>,
     <<"MOUNT", "MT">>, <<"MOUNTAIN", "MTN">>, <<"NORTH", "N">>,
     <<"PARK", "PARK">>, <<"PARKWAY", "PKWY">>, <<"PASS", "PASS">>,
     <<"PASSAGE", "PSGE">>, <<"PATH", "PATH">>, <<"PIKE", "PIKE">>,
     <<"PINE", "PNE">>, <<"PLACE", "PL">>, <<"PLAZA", "PLZ">>,
     <<"POINT", "PT">>, <<"PORT", "PRT">>, <<"PRAIRIE", "PR">>,
     <<"RADIAL", "RADL">>, <<"RANCH", "RNCH">>, <<"RAPIDS", "RPD">>,
     <<"REST", "RST">>, <<"RIDGE", "RDG">>, <<"RIVER", "RIV">>,
     <<"ROAD", "RD">>, <<"ROW", "ROW">>, <<"RUN", "RUN">>, <<"SHORE", "SHR">>,
     <<"SPRING", "SPG">>, <<"SQUARE", "SQ">>, <<"STATION", "STA">>,
     <<"STRAVENUE", "STRA">>, <<"STREAM", "STRM">>, <<"STREET", "ST">>,
     <<"SUMMIT", "SMT">>, <<"TERRACE", "TER">>, <<"TRACE", "TRCE">>,
     <<"TRAIL", "TRL">>, <<"TUNNEL", "TUNL">>, <<"TURNPIKE", "TPKE">>,
     <<"UNION", "UN">>, <<"VALLEY", "VLY">>, <<"VIEW", "VW">>,
     <<"VILLAGE", "VLG">>, <<"VILLE", "VL">>, <<"WALK", "WALK">>,
     <<"WALL", "WALL">>, <<"WAY", "WAY">>, <<"WELL", "WL">> >>

\* STATE_MAP of address_standardizer.py and address_standardizer_with_usps.py
STATE_MAP ==
  << <<"ALABAMA", "AL">>, <<"ALASKA", "AK">>, <<"ARIZONA", "AZ">>,
     <<"ARKANSAS", "AR">>, <<"CALIFORNIA", "CA">>, <<"COLORADO", "CO">>,
     <<"CONNECTICUT", "CT">>, <<"DELAWARE", "DE">>,
     <<"DISTRICT OF COLUMBIA", "DC">>, <<"FLORIDA", "FL">>, <<"GEORGIA", "GA">>,
     <<"HAWAII", "HI">>, <<"IDAHO", "ID">>, <<"ILLINOIS", "IL">>,
     <<"INDIANA", "IN">>, <<"IOWA", "IA">>, <<"KANSAS", "KS">>,
     <<"KENTUCKY", "KY">>, <<"LOUISIANA", "LA">>, <<"MAINE", "ME">>,
     <<"MARYLAND", "MD">>, <<"MASSACHUSETTS", "MA">>, <<"MICHIGAN", "MI">>,
     <<"MINNESOTA", "MN">>, <<"MISSISSIPPI", "MS">>, <<"MISSOURI", "MO">>,
     <<"MONTANA", "MT">>, <<"NEBRASKA", "NE">>, <<"NEVADA", "NV">>,
     <<"NEW HAMPSHIRE", "NH">>, <<"NEW JERSEY", "NJ">>, <<"NEW MEXICO", "NM">>,
     <<"NEW YORK", "NY">>, <<"NORTH CAROLINA", "NC">>, <<"NORTH DAKOTA", "ND">>,
     <<"OHIO", "OH">>, <<"OKLAHOMA", "OK">>, <<"OREGON", "OR">>,
     <<"PENNSYLVANIA", "PA">>, <<"RHODE ISLAND", "RI">>,
     <<"SOUTH CAROLINA", "SC">>, <<"SOUTH DAKOTA", "SD">>,
     <<"TENNESSEE", "TN">>, <<"TEXAS", "TX">>, <<"UTAH", "UT">>,
     <<"VERMONT", "VT">>, <<"VIRGINIA", "VA">>, <<"WASHINGTON", "WA">>,
     <<"WEST VIRGINIA", "WV">>, <<"WISCONSIN", "WI">>, <<"WYOMING", "WY">>,
     <<"PUERTO RICO", "PR">>, <<"GUAM", "GU">>, <<"VIRGIN ISLANDS", "VI">>,
     <<"AMERICAN SAMOA", "AS">> >>

\* STATE_MAP of the full-address parser
STATE_MAP_parser ==
  << <<"ALABAMA", "AL">>, <<"ALASKA", "AK">>, <<"ARIZONA", "AZ">>,
     <<"ARKANSAS", "AR">>, <<"CALIFORNIA", "CA">>, <<"NEW YORK", "NY">>,
     <<"TEXAS", "TX">>, <<"FLORIDA", "FL">>, <<"ILLINOIS", "IL">>,
     <<"WASHINGTON", "WA">> >>

\* key in table / table[key] of a dict
HasKey(table, key) == \E k \in 1..Len(table) : table[k][1] = key
Lookup(table, key) == table[CHOOSE k \in 1..Len(table) : table[k][1] = key][2]

\* str.isalpha()
isalpha(s) == s # "" /\ \A i \in 1..Len(s) : Ch(s, i) \in UPPER \cup LOWER

(***************************************************************************)
(* Local normalization helpers.                                            *)
(***************************************************************************)
upper_and_cleanup(text) ==
  IF text = "" THEN ""
  ELSE MULTISPACE_RE_sub(NON_ALNUM_RE_sub(upper(strip(text))))

\* the second lookup: s_alt = s_clean.replace(" STATE", "")
standardize_state_alt(table, s, s_alt) ==
  IF HasKey(table, s_alt) THEN Lookup(table, s_alt) ELSE s

standardize_state_clean(table, s, s_clean) ==
  IF HasKey(table, s_clean) THEN Lookup(table, s_clean)
  ELSE standardize_state_alt(table, s, replace(s_clean, " STATE", ""))

\* variant: the length test of the 2-letter shortcut is left out
standardize_state_upper_any_letters(table, s) ==
  IF isalpha(s) THEN s
  ELSE standardize_state_clean(table, s,
         strip(MULTISPACE_RE_sub(KeepOnly(s, WORD \cup SPACE))))

\* s = state.strip().upper()
standardize_state_upper(table, s) ==
  IF Len(s) = 2 /\ isalpha(s) THEN s
  ELSE standardize_state_clean(table, s,
         strip(MULTISPACE_RE_sub(KeepOnly(s, WORD \cup SPACE))))

standardize_state_with(table, state) ==
  IF state = "" THEN "" ELSE standardize_state_upper(table, upper(strip(state)))

standardize_state(state) == standardize_state_with(STATE_MAP, state)

standardize_state_parser(state) == standardize_state_with(STATE_MAP_parser, state)

\* variant: the digit string is returned even when it is empty
standardize_zip_digits_only(zip_code, z) ==
  IF Len(z) = 9 THEN SubSeq(z, 1, 5) \o "-" \o SubSeq(z, 6, 9)
  ELSE z

\* z = re.sub(r"[^\d]", "", zip_code)
standardize_zip_digits(zip_code, z) ==
  IF Len(z) = 9 THEN SubSeq(z, 1, 5) \o "-" \o SubSeq(z, 6, 9)
  ELSE IF Len(z) = 5 THEN z
  ELSE IF z # "" THEN z ELSE strip(zip_code)

standardize_zip(zip_code) ==
  IF zip_code = "" THEN "" ELSE standardize_zip_digits(zip_code, KeepOnly(zip_code, DIGIT))

\* re.sub(r"\b" + re.escape(long) + r"\b", short, s), scanning from index i
RECURSIVE sub_word_from(_, _, _, _)
sub_word_from(long, short, s, i) ==
  IF i > Len(s) THEN ""
  ELSE IF /\ i + Len(long) - 1 <= Len(s)
          /\ SubSeq(s, i, i + Len(long) - 1) = long
          /\ AtWordBoundary(s, i - 1)
          /\ AtWordBoundary(s, i + Len(long) - 1)
       THEN short \o sub_word_from(long, short, s, i + Len(long))
       ELSE Ch(s, i) \o sub_word_from(long, short, s, i + 1)

\* the loop  for long, short in table.items(): s = re.sub(...)  from entry k on
\* (no pattern matches in the empty text)
RECURSIVE sub_table_from(_, _, _)
sub_table_from(table, s, k) ==
  IF k > Len(table) \/ s = "" THEN s
  ELSE sub_table_from(table, sub_word_from(table[k][1], table[k][2], s, 1), k + 1)

replace_suffixes_and_dirs_with(suffixes, s) ==
  IF s = "" THEN s
  ELSE strip(MULTISPACE_RE_sub(sub_table_from(suffixes, sub_table_from(DIR_MAP, s, 1), 1)))

replace_suffixes_and_dirs(s) == replace_suffixes_and_dirs_with(SUFFIX_MAP, s)

replace_suffixes_and_dirs_usps(s) == replace_suffixes_and_dirs_with(SUFFIX_MAP_usps, s)

normalize_po_box(address) ==
  IF address = "" THEN address
  ELSE strip(MULTISPACE_RE_sub(replace(POBOX_RE_sub("PO BOX", address), ".", "")))

\* designator = m.group("designator").upper().replace(...).replace(...), "#" becomes "APT"
unit_designator(d) == IF d = "#" THEN "APT" ELSE d

\* unit = f"{designator} {value}" of a unit match m
unit_of(m) ==
  unit_designator(replace(replace(upper(m.designator), "APARTMENT", "APT"), "SUITE", "STE"))
    \o " " \o upper(m.value)

\* the mid-string match m2, tried when the trailing match failed
extract_unit_mid(a, m2) ==
  IF m2.found
  THEN [street |-> strip(MULTISPACE_RE_sub(
                      strip(SubSeq(a, 1, m2.start - 1) \o From(a, m2.end + 1)))),
        unit |-> Some(unit_of(m2))]
  ELSE [street |-> a, unit |-> None]

\* the trailing match m
extract_unit_trailing(a, m) ==
  IF m.found
  THEN [street |-> strip(SubSeq(a, 1, m.start - 1)), unit |-> Some(unit_of(m))]
  ELSE extract_unit_mid(a, mid_unit_re_search(a))

\* variant: the PO-Box guard is left out
extract_unit_collapsed_unguarded(a) ==
  extract_unit_trailing(a, trailing_unit_re_search(a))

\* a: the address with commas replaced and whitespace collapsed
extract_unit_collapsed(a) ==
  IF POBOX_RE_search(a) THEN [street |-> a, unit |-> None]
  ELSE extract_unit_trailing(a, trailing_unit_re_search(a))

extract_unit(address) ==
  IF address = "" THEN [street |-> "", unit |-> None]
  ELSE extract_unit_collapsed(strip(MULTISPACE_RE_sub(replace(address, ",", " "))))

(***************************************************************************)
(* The Address Normalizer (standardize_address_components_local), one      *)
(* definition per copy in the source.  An absent (None) argument behaves   *)
(* as "" in every copy.                                                    *)
(***************************************************************************)
Components(a1, a2, c, st, z) ==
  [address1 |-> a1, address2 |-> a2, city |-> c, state |-> st, zip |-> z]

\* unit_candidate or ""
OrEmpty(u) == IF u.some THEN u.val ELSE ""

\* a1, extracted_unit = extract_unit(a1); if extracted_unit: a2 = extracted_unit
\* (a2 is "" when this runs)
adopt_unit(ex) == <<ex.street, OrEmpty(ex.unit)>>

\* a variant that looks for a unit in a PO-box street as well
street_and_unit_extracting(a1, a2, po_box) ==
  IF a2 = ""
  THEN adopt_unit(extract_unit_trailing(po_box, trailing_unit_re_search(po_box)))
  ELSE <<po_box, a2>>

\* the pair <<a1, a2>> after the PO-box / unit-extraction step;
\* po_box is what the copy makes of a PO-box street
street_and_unit(a1, a2, po_box) ==
  IF POBOX_RE_search(a1) THEN <<po_box, a2>>
  ELSE IF a2 = "" THEN adopt_unit(extract_unit(a1))
  ELSE <<a1, a2>>

\* if a2: a2 = a2.replace("APARTMENT", "APT").replace("SUITE", "STE"); collapse and strip
unit_canonical(a2) ==
  IF a2 # ""
  THEN strip(MULTISPACE_RE_sub(replace(replace(a2, "APARTMENT", "APT"), "SUITE", "STE")))
  ELSE a2

\* if a2: a2 = replace_suffixes_and_dirs(a2)
unit_abbreviated(suffixes, a2) ==
  IF a2 # "" THEN replace_suffixes_and_dirs_with(suffixes, a2) ELSE a2

\* from "if a2:" to the return, su the pair <<a1, a2>>
local_result(suffixes, states, su, city, state, zip_code) ==
  Components(strip(MULTISPACE_RE_sub(replace_suffixes_and_dirs_with(suffixes, su[1]))),
             strip(MULTISPACE_RE_sub(unit_abbreviated(suffixes, unit_canonical(su[2])))),
             upper_and_cleanup(city),
             standardize_state_with(states, state),
             standardize_zip(zip_code))

\* address_standardizer.py, a1 and a2 cleaned
local_cleaned(a1, a2, city, state, zip_code) ==
  local_result(SUFFIX_MAP, STATE_MAP,
               street_and_unit(a1, a2, replace(POBOX_RE_sub("PO BOX", a1), ".", "")),
               city, state, zip_code)

standardize_address_components_local(address1, address2, city, state, zip_code) ==
  local_cleaned(upper_and_cleanup(address1),
                IF address2 # "" THEN upper_and_cleanup(address2) ELSE "",
                city, state, zip_code)

\* address_standardizer_with_usps.py (first copy), a1 and a2 cleaned
local_cleaned_usps(a1, a2, city, state, zip_code) ==
  local_result(SUFFIX_MAP_usps, STATE_MAP,
               street_and_unit(a1, a2, normalize_po_box(a1)),
               city, state, zip_code)

standardize_address_components_local_usps(address1, address2, city, state, zip_code) ==
  local_cleaned_usps(upper_and_cleanup(address1),
                     IF address2 # "" THEN upper_and_cleanup(address2) ELSE "",
                     city, state, zip_code)

\* the copy the full-address parser uses, a1 and a2 cleaned
local_cleaned_parser(a1, a2, city, state, zip_code) ==
  local_result(SUFFIX_MAP, STATE_MAP_parser,
               street_and_unit(a1, a2, replace(POBOX_RE_sub("PO BOX", a1), ".", "")),
               city, state, zip_code)

standardize_address_components_local_parser(address1, address2, city, state, zip_code) ==
  local_cleaned_parser(upper_and_cleanup(address1),
                       IF address2 # "" THEN upper_and_cleanup(address2) ELSE "",
                       city, state, zip_code)

(***************************************************************************)
(* The Full-Address Splitter (parse_full_address).                         *)
(***************************************************************************)
\* the pattern (\d{5}(?:-\d{4})?)\b tried at index i
zip_re_at(s, i) ==
  IF \E j \in i..(i + 4) : Ch(s, j) \notin DIGIT THEN 0
  ELSE IF /\ Ch(s, i + 5) = "-"
          /\ \A j \in (i + 6)..(i + 9) : Ch(s, j) \in DIGIT
          /\ AtWordBoundary(s, i + 9)
  THEN i + 9
  ELSE IF AtWordBoundary(s, i + 4) THEN i + 4
  ELSE 0

zip_re_first(s, starts) ==
  IF starts = {} THEN [found |-> FALSE]
  ELSE [found |-> TRUE, start |-> Min(starts),
        zip |-> SubSeq(s, Min(starts), zip_re_at(s, Min(starts)))]

\* re.search(r"(\d{5}(?:-\d{4})?)\b", s)
zip_re_search(s) == zip_re_first(s, {i \in 1..Len(s) : zip_re_at(s, i) # 0})

\* the local variables street, unit, city, state, zipc when the try block ends
Locals(street, unit, city, state, zipc) ==
  [exc |-> FALSE, street |-> street, unit |-> unit, city |-> city,
   state |-> state, zipc |-> zipc]

\* an exception raised inside the try block
Exc == [exc |-> TRUE]

\* [p.strip() for p in s.split(",") if p.strip()]
RECURSIVE stripped_nonempty(_)
stripped_nonempty(seq) ==
  IF seq = <<>> THEN <<>>
  ELSE (IF strip(Head(seq)) # "" THEN <<strip(Head(seq))>> ELSE <<>>)
       \o stripped_nonempty(Tail(seq))

\* branch  len(parts) >= 3, with ex = extract_unit(street_part)
\* and m_zip the ZIP match in state_zip_part
three_or_more_locals(ex, city_part, state_zip_part, m_zip) ==
  Locals(ex.street, OrEmpty(ex.unit), city_part,
         IF m_zip.found THEN strip(SubSeq(state_zip_part, 1, m_zip.start - 1))
         ELSE strip(state_zip_part),
         IF m_zip.found THEN m_zip.zip ELSE "")

\* variant: the street portion also takes the second-to-last segment
split_three_or_more_greedy(parts) ==
  IF Len(parts) < 2 THEN Exc
  ELSE three_or_more_locals(extract_unit(join(", ", SubSeq(parts, 1, Len(parts) - 1))),
                            parts[Len(parts) - 1], parts[Len(parts)],
                            zip_re_search(parts[Len(parts)]))

\* parts[-2] raises IndexError on fewer than two parts
split_three_or_more(parts) ==
  IF Len(parts) < 2 THEN Exc
  ELSE three_or_more_locals(extract_unit(join(", ", SubSeq(parts, 1, Len(parts) - 2))),
                            parts[Len(parts) - 1], parts[Len(parts)],
                            zip_re_search(parts[Len(parts)]))

\* variant: the first token, not the last, is taken as the state
two_locals_first_token(ex, right, m_zip) ==
  LET without_zip == IF m_zip.found THEN strip(SubSeq(right, 1, m_zip.start - 1))
                     ELSE right
      tokens == split_ws(without_zip)
      zipc == IF m_zip.found THEN m_zip.zip ELSE ""
  IN  IF tokens # <<>>
      THEN Locals(ex.street, OrEmpty(ex.unit),
                  strip(join(" ", Tail(tokens))), tokens[1], zipc)
      ELSE Locals(ex.street, OrEmpty(ex.unit), without_zip, "", zipc)

\* branch  len(parts) == 2, with ex = extract_unit(street_part)
\* and m_zip the ZIP match in right
two_locals(ex, right, m_zip) ==
  LET without_zip == IF m_zip.found THEN strip(SubSeq(right, 1, m_zip.start - 1))
                     ELSE right
      tokens == split_ws(without_zip)
      zipc == IF m_zip.found THEN m_zip.zip ELSE ""
  IN  IF tokens # <<>>
      THEN Locals(ex.street, OrEmpty(ex.unit),
                  strip(join(" ", SubSeq(tokens, 1, Len(tokens) - 1))),
                  tokens[Len(tokens)], zipc)
      ELSE Locals(ex.street, OrEmpty(ex.unit), without_zip, "", zipc)

\* parts[1] raises IndexError on fewer than two parts
split_two(parts) ==
  IF Len(parts) < 2 THEN Exc
  ELSE two_locals(extract_unit(parts[1]), parts[2], zip_re_search(parts[2]))

\* variant: the trailing token is split off whether or not a token holds a digit
single_locals_always_split(s, m_zip) ==
  LET before_zip == IF m_zip.found THEN strip(SubSeq(s, 1, m_zip.start - 1)) ELSE s
      tokens == split_ws(before_zip)
      n == Len(tokens)
      zipc == IF m_zip.found THEN m_zip.zip ELSE ""
  IN  IF n >= 3 /\ (Len(tokens[n]) = 2 \/ isalpha(tokens[n]))
      THEN Locals(join(" ", SubSeq(tokens, 1, n - 2)), "", "", tokens[n], zipc)
      ELSE Locals(before_zip, "", "", "", zipc)

\* branch  else  (no comma-separated parts, or one), m_zip the ZIP match in s
single_locals(s, m_zip) ==
  LET before_zip == IF m_zip.found THEN strip(SubSeq(s, 1, m_zip.start - 1)) ELSE s
      tokens == split_ws(before_zip)
      n == Len(tokens)
      zipc == IF m_zip.found THEN m_zip.zip ELSE ""
      idx_num_is_none ==
        \A i \in 1..n : \A j \in 1..Len(tokens[i]) : Ch(tokens[i], j) \notin DIGIT
  IN  IF idx_num_is_none THEN Locals(before_zip, "", "", "", zipc)
      ELSE IF n >= 3 /\ (Len(tokens[n]) = 2 \/ isalpha(tokens[n]))
      THEN Locals(join(" ", SubSeq(tokens, 1, n - 2)), "", "", tokens[n], zipc)
      ELSE Locals(before_zip, "", "", "", zipc)

split_single(s) == single_locals(s, zip_re_search(s))

\* the text s the branches work on
collapsed(text) ==
  strip(MULTISPACE_RE_sub(replace(replace(strip(text), "\n", " "), "\r", " ")))

\* parts
comma_parts(text) == stripped_nonempty(split(collapsed(text), ","))

\* the try block: the locals it leaves, or the exception it raises
try_split(text) ==
  IF Len(comma_parts(text)) >= 3 THEN split_three_or_more(comma_parts(text))
  ELSE IF Len(comma_parts(text)) = 2 THEN split_two(comma_parts(text))
  ELSE split_single(collapsed(text))

\* except Exception: all empty; else the locals go through the normalizer
parse_locals(loc) ==
  IF loc.exc THEN Components("", "", "", "", "")
  ELSE standardize_address_components_local_parser(
         loc.street, loc.unit, loc.city, loc.state, loc.zipc)

\* the outcome of a call that lets an exception escape to its caller
Raised == [raised |-> TRUE]

\* variant: an absent value is not caught by the first test, and full.strip()
\* raises AttributeError outside the try block
parse_full_address_unguarded(full) ==
  IF ~full.some THEN Raised
  ELSE IF full.val = "" THEN Components("", "", "", "", "")
  ELSE parse_locals(try_split(full.val))

\* if not full: all empty (None and "" alike)
parse_full_address(full) ==
  IF ~full.some \/ full.val = "" THEN Components("", "", "", "", "")
  ELSE parse_locals(try_split(full.val))

(***************************************************************************)
(* Inputs.  Every function of the engine is pure: a behaviour picks one    *)
(* input and applies the functions to it.                                  *)
(***************************************************************************)
MaxPieces == 3
MaxSegments == 4
MaxWords == 3

\* the texts made of at most n pieces
RECURSIVE Concats(_, _)
Concats(pieces, n) ==
  IF n = 0 THEN {""}
  ELSE Concats(pieces, n - 1) \cup {s \o p : s \in Concats(pieces, n - 1), p \in pieces}

\* the texts made of 1..n elements of texts joined by sep
Joined(texts, sep, n) ==
  {join(sep, q) : q \in UNION {[1..k -> texts] : k \in 1..n}}

\* street lines
LinePieces ==
  {"12 Oak", " Apt 4B", " suite 2", " # 5", "#7", " Flower", " FLOOR 3"}

POBoxForms ==
  {"PO BOX", "P.O. BOX", "p.o. box", "Po Box", "P.O.Box", "POBOX", "P.O  BOX", "p.O. bOx"}

ExampleLines ==
  {"456 ELM ST APT 4B", "PO BOX 789", "100 MAIN ST", "100 FLOWER ST", "12 OAK RD FL 2 # 4",
   "12 Oak, Apt 4B", "12 Oak,suite 2", "1 Main apt. #4", "1 Main, Unit: 7-A"}

Lines ==
  Concats(LinePieces, MaxPieces)
    \cup {pre \o po \o post : pre \in {"", "12 Oak, "}, po \in POBoxForms,
                              post \in {"", " 789", " 9 Apt 4B", " 9, # 5 x", " suite 2 z"}}
    \cup ExampleLines

\* full-address texts
SegmentTexts ==
  {"456 Elm St Apt 4B", "Smallville", "Illinois", "60606-1234", "Bigcity TX 73301"}

Words == {"Main", "north", "Street", "Apt", "B", "\n"}

ExampleTexts ==
  {"", "  ", "100 North Broadway Suite 200, Bigcity TX 73301", "P.O. Box", "Main St.",
   "123 Main St, Apt 4, Springfield, IL 62704",
   "456 Elm St Apt 4B,, Smallville , IL 62704", "12 Oak,,73301 ",
   "12 Oak, Smallville, IL 1234567", "12 Oak, IL 123456-7890", "Acct 1234567 Main"}

FullTexts ==
  Joined(SegmentTexts, ", ", MaxSegments) \cup Joined(Words, " ", MaxWords)
    \cup ExampleTexts

\* already-split rows
RowStreets ==
  {"123 Main Street", "456 Elm St Apt 4B", "PO Box 789", "P.O.Box 789 Apt 4",
   "12-34 W. Maple Avenue, #5", "1 Falls", ""}
RowUnits == {"", "Suite 200"}
RowCities == {"Smallville", ". a", ""}
RowStates == {"Illinois", "tx", "Washington State", "N.Y."}
RowZips == {"60606-1234", "abc"}

Rows ==
  {Components(a1, a2, c, st, z) :
     a1 \in RowStreets, a2 \in RowUnits, c \in RowCities, st \in RowStates, z \in RowZips}

\* state texts: every key and every value of both state tables, and others
TableKeys(table) == {table[k][1] : k \in 1..Len(table)}
TableValues(table) == {table[k][2] : k \in 1..Len(table)}

OtherStates ==
  {"", "tx", " illinois ", "Washington State", "N.Y.", "New  York.", "New State York",
   "Ontario, Canada", "Texas State Fair", "T3", "state", "Washington"}

StateTexts ==
  TableKeys(STATE_MAP) \cup TableValues(STATE_MAP)
    \cup TableKeys(STATE_MAP_parser) \cup TableValues(STATE_MAP_parser) \cup OtherStates

\* ZIP texts
ZipPieces == {"12345", "6789", "-", "abc", " ", "0"}

ZipTexts == Concats(ZipPieces, MaxPieces) \cup {"123456789", "60606-1234", "1234"}

\* texts handed to replace_suffixes_and_dirs: long forms of both tables, a dotted
\* directional, and words that only contain a long form
CanonTexts == Joined({"NORTH", "N.", "STREET", "NORTHERN", "STREETER"}, " ", MaxWords)

\* CSV files: a header and the rows csv.DictReader yields for it
MaxRows == 2

Range(seq) == {seq[k] : k \in 1..Len(seq)}

Headers ==
  {<<"address1", "address2", "city", "state", "zip">>,
   <<"id", "address1", "address2", "city", "state", "zip", "std_address1">>,
   <<"std_address1_1", "address1", "city", "state", "zip", "std_address1">>,
   <<"id", "FullAddress">>,
   <<"fulladdress ", "parsed_address1">>,
   <<"address1", "address1_1", "city", "state", "zip", "std_address1">>}

\* the two values a cell of the named column takes
Cells(column) ==
  IF column = "address1" THEN <<"123 Main Street", "PO Box 789">>
  ELSE IF column = "address2" THEN <<"", "Suite 200">>
  ELSE IF column = "city" THEN <<"Smallville", "Bigcity">>
  ELSE IF column = "state" THEN <<"Illinois", "tx">>
  ELSE IF column = "zip" THEN <<"60606-1234", "73301">>
  ELSE IF column \in {"FullAddress", "fulladdress "}
  THEN <<"100 North Broadway Suite 200, Bigcity TX 73301", "">>
  ELSE <<"kept " \o column, "7">>

CsvRow(header, v) == [c \in Range(header) |-> Cells(c)[v]]

\* n rows, whose cells alternate between the two values
CsvRows(header, n) == [k \in 1..n |-> CsvRow(header, ((k + 1) % 2) + 1)]

Settings ==
  {[use_usps |-> TRUE, userid |-> Some("KEY"), prefix |-> "parsed_"],
   [use_usps |-> TRUE, userid |-> None, prefix |-> "std_"],
   [use_usps |-> TRUE, userid |-> Some(""), prefix |-> "parsed_"],
   [use_usps |-> FALSE, userid |-> Some("KEY"), prefix |-> "std_"]}

\* the columns argument: the default names, or the caller's five names
ColumnChoices(header) ==
  {<<"address1", "address2", "city", "state", "zip">>}
    \cup (IF "address1_1" \in Range(header)
          THEN {<<"address1", "address1_1", "city", "state", "zip">>} ELSE {})

CsvJobs ==
  {[kind |-> "csv", header |-> job[1], rows |-> CsvRows(job[1], n),
    use_usps |-> st.use_usps, userid |-> st.userid,
    columns |-> job[2],
    column_name |-> "FullAddress", prefix |-> st.prefix] :
     job \in {<<h, cols>> \in Headers \X UNION {ColumnChoices(h) : h \in Headers} :
                cols \in ColumnChoices(h)},
     n \in 0..MaxRows, st \in Settings}

Inputs ==
  {[kind |-> "line", text |-> t] : t \in Lines}
    \cup {[kind |-> "full", full |-> Some(t)] : t \in FullTexts}
    \cup {[kind |-> "full", full |-> None]}
    \cup {[kind |-> "row", row |-> r] : r \in Rows}
    \cup {[kind |-> "state", text |-> t] : t \in StateTexts}
    \cup {[kind |-> "zip", text |-> t] : t \in ZipTexts}
    \cup {[kind |-> "words", text |-> t] : t \in CanonTexts}
    \cup CsvJobs

Copies == {"address_standardizer", "address_standardizer_with_usps", "fulladdress_parser"}

\* standardize_address_components_local of the named copy, applied to a row
Normalize(c, r) ==
  IF c = "address_standardizer"
  THEN standardize_address_components_local(r.address1, r.address2, r.city, r.state, r.zip)
  ELSE IF c = "address_standardizer_with_usps"
  THEN standardize_address_components_local_usps(r.address1, r.address2, r.city, r.state, r.zip)
  ELSE standardize_address_components_local_parser(r.address1, r.address2, r.city, r.state, r.zip)

\* the STATE_MAP the named copy looks states up in
StateTableOf(c) == IF c = "fulladdress_parser" THEN STATE_MAP_parser ELSE STATE_MAP

\* standardize_state of the named copy
StandardizeStateOf(c, state) ==
  IF c = "fulladdress_parser" THEN standardize_state_parser(state)
  ELSE standardize_state(state)

(***************************************************************************)
(* The remote verifier (call_usps_verify).  A response is what the request *)
(* meets: an exception it raises, or a status and a content; a content     *)
(* that parses is the tree ET.fromstring returns, reduced to its first     *)
(* Error and its first Address element.                                    *)
(***************************************************************************)
Failure(msg) == [ok |-> FALSE, standardized |-> <<>>, err |-> Some(msg)]
Success(standardized) == [ok |-> TRUE, standardized |-> standardized, err |-> None]

\* combined_zip
combined_zip(usps_zip5, usps_zip4) ==
  IF usps_zip5 # "" /\ usps_zip4 # "" THEN usps_zip5 \o "-" \o usps_zip4 ELSE usps_zip5

\* addr: the Address element, an absent child read as ""
call_usps_verify_address(addr) ==
  Success(Components(strip(addr.Address2), strip(addr.Address1), strip(addr.City),
                     strip(addr.State),
                     combined_zip(strip(addr.Zip5), strip(addr.Zip4))))

\* desc = err.findtext("Description") or err.findtext("Number") or "USPS API error"
call_usps_verify_desc(err) ==
  IF err.Description # "" THEN err.Description
  ELSE IF err.Number # "" THEN err.Number
  ELSE "USPS API error"

call_usps_verify_root(root) ==
  IF root.Error.some THEN Failure("USPS API error: " \o call_usps_verify_desc(root.Error.val))
  ELSE IF ~root.Address.some THEN Failure("No Address element in USPS response")
  ELSE call_usps_verify_address(root.Address.val)

\* the two copies word the parse error differently
call_usps_verify_content(c, content) ==
  IF content.parses THEN call_usps_verify_root(content.root)
  ELSE Failure("XML parse error: " \o content.error
               \o (IF c = "address_standardizer" THEN ". Raw: " ELSE ". Raw response: ")
               \o content.raw)

call_usps_verify(c, response) ==
  IF response.raises = "HTTPError"
  THEN Failure("HTTPError: " \o ToString(response.code) \o " " \o response.reason)
  ELSE IF response.raises = "URLError" THEN Failure("URLError: " \o response.reason)
  ELSE IF response.raises = "Exception" THEN Failure("Request error: " \o response.reason)
  ELSE IF response.status # 200 THEN Failure("HTTP " \o ToString(response.status))
  ELSE call_usps_verify_content(c, response.content)

(***************************************************************************)
(* The CSV processors: process_csv of address_standardizer.py (the stdin   *)
(* branch of its main runs the same statements), process_csv_with_usps,    *)
(* and process_csv of the full-address parser.                             *)
(***************************************************************************)
\* row.get(key, "")
row_get(row, key) == IF key \in DOMAIN row THEN row[key] ELSE ""

\* the dict literal {keys[0]: values[0], ...}: a repeated key keeps its last value
dict_of(keys, values) ==
  [n \in Range(keys) |-> values[Max({i \in 1..Len(keys) : keys[i] = n})]]

\* a variant with an if in place of the while: the suffixed name is not looked up again
std_name_from_once(base, std_name, suffix, input_fieldnames) ==
  IF std_name \in Range(input_fieldnames) THEN base \o "_" \o ToString(suffix) ELSE std_name

\* the while loop that looks for a name no input column has
RECURSIVE std_name_from(_, _, _, _)
std_name_from(base, std_name, suffix, input_fieldnames) ==
  IF std_name \in Range(input_fieldnames)
  THEN std_name_from(base, base \o "_" \o ToString(suffix), suffix + 1, input_fieldnames)
  ELSE std_name

std_fields(columns, input_fieldnames) ==
  [i \in 1..Len(columns) |->
     std_name_from("std_" \o columns[i], "std_" \o columns[i], 1, input_fieldnames)]

\* new_cols of the parser's process_csv
new_cols(prefix) ==
  <<prefix \o "address1", prefix \o "address2", prefix \o "city", prefix \o "state",
    prefix \o "zip">>

\* str.lower
RECURSIVE lower(_)
lower(s) ==
  IF s = "" THEN ""
  ELSE (IF Head(s) \in UPPER THEN CHOOSE c \in LOWER : UpperOf[c] = Head(s) ELSE Head(s))
       \o lower(Tail(s))

\* actual_col: the first column named column_name, case and margins ignored
actual_col_among(input_fieldnames, hits) ==
  IF hits = {} THEN None ELSE Some(input_fieldnames[Min(hits)])

actual_col(input_fieldnames, column_name) ==
  actual_col_among(input_fieldnames,
    {k \in 1..Len(input_fieldnames) :
       /\ input_fieldnames[k] # ""
       /\ lower(strip(input_fieldnames[k])) = lower(strip(column_name))})

\* the fieldnames the writer of copy c is given
out_fieldnames(c, job) ==
  IF c = "address_standardizer" THEN job.header \o std_fields(job.columns, job.header)
  ELSE IF c = "address_standardizer_with_usps" THEN job.columns
  ELSE job.header \o new_cols(job.prefix)

\* local = standardize_address_components_local(raw_a1, raw_a2, raw_city, raw_state, raw_zip)
local_of(c, row, columns) ==
  Normalize(c, Components(row_get(row, columns[1]), row_get(row, columns[2]),
                          row_get(row, columns[3]), row_get(row, columns[4]),
                          row_get(row, columns[5])))

\* usps_res.get(field) or local[field]
merged(usps_res, local) ==
  [f \in DOMAIN local |-> IF usps_res[f] # "" THEN usps_res[f] ELSE local[f]]

\* the components written: verdict is None when the verifier was not called
chosen(verdict, local) ==
  IF verdict.some /\ verdict.val.ok THEN merged(verdict.val.standardized, local) ELSE local

values_of(comp) == <<comp.address1, comp.address2, comp.city, comp.state, comp.zip>>

\* the parser's row: parse_full_address when the column exists and the cell is not empty
parsed_of(row, actual) ==
  IF actual.some /\ row_get(row, actual.val) # ""
  THEN parse_full_address(Some(row[actual.val]))
  ELSE Components("", "", "", "", "")

\* the components of a row before the verifier is asked: local of the two
\* standardizers, parsed of the parser
components_of(c, job, row) ==
  IF c = "fulladdress_parser" THEN parsed_of(row, actual_col(job.header, job.column_name))
  ELSE local_of(c, row, job.columns)

\* the dict handed to writer.writerow by copy c, comp being the components chosen
out_row(c, job, row, comp) ==
  IF c = "address_standardizer"
  THEN dict_of(std_fields(job.columns, job.header), values_of(comp)) @@ row
  ELSE IF c = "address_standardizer_with_usps"
  THEN dict_of(job.columns, values_of(comp))
  ELSE dict_of(new_cols(job.prefix), values_of(comp)) @@ row

\* csv.DictWriter.writerow: the values in the order of fieldnames, "" for a missing key
writerow(fieldnames, rowdict) ==
  [k \in 1..Len(fieldnames) |-> row_get(rowdict, fieldnames[k])]

\* a response per kind of failure, and answers that hold an Address
NoChild == [Address1 |-> "", Address2 |-> "", City |-> "", State |-> "", Zip5 |-> "", Zip4 |-> ""]

Answer(root) == [raises |-> "", status |-> 200, content |-> [parses |-> TRUE, root |-> root]]

Responses ==
  {[raises |-> "HTTPError", code |-> 503, reason |-> "Service Unavailable"],
   [raises |-> "URLError", reason |-> "timed out"],
   [raises |-> "", status |-> 500, content |-> [parses |-> FALSE, error |-> "", raw |-> ""]],
   [raises |-> "", status |-> 200,
    content |-> [parses |-> FALSE, error |-> "syntax error: line 1, column 0",
                 raw |-> "Bad Gateway"]],
   Answer([Error |-> Some([Description |-> "Address Not Found.", Number |-> "-2147219401"]),
           Address |-> Some(NoChild)]),
   Answer([Error |-> None, Address |-> None]),
   Answer([Error |-> None,
           Address |-> Some([Address1 |-> "", Address2 |-> " 123 MAIN ST ", City |-> "",
                             State |-> "IL", Zip5 |-> "60606", Zip4 |-> "1234"])])}

\* if use_usps and userid: (the parser's process_csv has no verifier)
verifying(c, job) ==
  c # "fulladdress_parser" /\ job.use_usps /\ job.userid.some /\ job.userid.val # ""

\* a variant that hands the verifier the cells as they were read
call_args_raw(c, job, row, local) ==
  IF verifying(c, job)
  THEN Some(<<row_get(row, job.columns[1]), row_get(row, job.columns[2]),
              row_get(row, job.columns[3]), row_get(row, job.columns[4]),
              row_get(row, job.columns[5])>>)
  ELSE None

\* street, secondary, city, state, zip_code of the call of call_usps_verify for a row,
\* None when the verifier is not called
call_args(c, job, row, local) ==
  IF verifying(c, job) THEN Some(values_of(local)) ELSE None

\* the verifier is called once by the two standardizers: a call is the response the
\* service gave and what call_usps_verify returned for it
Calls(c, job) ==
  IF verifying(c, job)
  THEN {[response |-> Some(r), verdict |-> Some(call_usps_verify(c, r))] : r \in Responses}
  ELSE {[response |-> None, verdict |-> None]}

(***************************************************************************)
(* State machine.                                                          *)
(***************************************************************************)
VARIABLES
  arg,      \* the input of the behaviour
  op,       \* the function applied last ("start": none yet)
  copy,     \* the copy of the normalizer in use
  locals,   \* parse_full_address: the locals left by its try block;
            \* a CSV processor: the rows read and the verifier's results
  prev,     \* the result before the last call
  result    \* what the last call returned; a CSV processor: the file written

vars == <<arg, op, copy, locals, prev, result>>

Unset == [unset |-> TRUE]

Init ==
  /\ arg \in Inputs
  /\ op = "start"
  /\ copy = "none"
  /\ locals = Unset
  /\ prev = Unset
  /\ result = Unset

ExtractUnit ==
  /\ op = "start"
  /\ arg.kind = "line"
  /\ result' = extract_unit(arg.text)
  /\ op' = "extract_unit"
  /\ UNCHANGED <<arg, copy, locals, prev>>

NormalizeRow ==
  /\ op = "start"
  /\ arg.kind = "row"
  /\ \E c \in Copies :
       /\ copy' = c
       /\ result' = Normalize(c, arg.row)
  /\ op' = "normalize"
  /\ UNCHANGED <<arg, locals, prev>>

\* the components returned are fed back into the same copy
NormalizeAgain ==
  /\ op = "normalize"
  /\ prev' = result
  /\ result' = Normalize(copy, result)
  /\ op' = "normalize_again"
  /\ UNCHANGED <<arg, copy, locals>>

StandardizeState ==
  /\ op = "start"
  /\ arg.kind = "state"
  /\ \E c \in Copies :
       /\ copy' = c
       /\ result' = StandardizeStateOf(c, arg.text)
  /\ op' = "standardize_state"
  /\ UNCHANGED <<arg, locals, prev>>

\* standardize_zip is the same in every copy
StandardizeZip ==
  /\ op = "start"
  /\ arg.kind = "zip"
  /\ result' = standardize_zip(arg.text)
  /\ op' = "standardize_zip"
  /\ UNCHANGED <<arg, copy, locals, prev>>

\* replace_suffixes_and_dirs of the copy, each with its own suffix table
ReplaceSuffixesAndDirs ==
  /\ op = "start"
  /\ arg.kind = "words"
  /\ \E c \in Copies :
       /\ copy' = c
       /\ result' = IF c = "address_standardizer_with_usps"
                    THEN replace_suffixes_and_dirs_usps(arg.text)
                    ELSE replace_suffixes_and_dirs(arg.text)
  /\ op' = "replace_suffixes_and_dirs"
  /\ UNCHANGED <<arg, locals, prev>>

\* the processor opens both files and writes the header
OpenCsv ==
  /\ op = "start"
  /\ arg.kind = "csv"
  /\ \E c \in Copies :
       /\ copy' = c
       /\ result' = [fieldnames |-> out_fieldnames(c, arg), rows |-> <<>>]
  /\ locals' = [i |-> 0, invoked |-> 0, args |-> None,
                call |-> [response |-> None, verdict |-> None]]
  /\ op' = "process_csv"
  /\ UNCHANGED <<arg, prev>>

\* one turn of the loop over the reader: row i+1 is read, normalized, verified when
\* the verifier is in use, and written; invoked counts the calls of the verifier
WriteRow ==
  /\ op = "process_csv"
  /\ locals.i < Len(arg.rows)
  /\ LET row == arg.rows[locals.i + 1]
         comp == components_of(copy, arg, row)
     IN  \E call \in Calls(copy, arg) :
           /\ locals' = [i |-> locals.i + 1,
                         invoked |-> locals.invoked + (IF call.verdict.some THEN 1 ELSE 0),
                         args |-> call_args(copy, arg, row, comp),
                         call |-> call]
           /\ result' = [result EXCEPT !.rows =
                           Append(@, writerow(result.fieldnames,
                                              out_row(copy, arg, row,
                                                      chosen(call.verdict, comp))))]
  /\ UNCHANGED <<arg, op, copy, prev>>

ParseFullAddress ==
  /\ op = "start"
  /\ arg.kind = "full"
  /\ locals' = (IF arg.full.some /\ arg.full.val # ""
                THEN try_split(arg.full.val) ELSE Unset)
  /\ result' = parse_full_address(arg.full)
  /\ op' = "parse_full_address"
  /\ UNCHANGED <<arg, copy, prev>>

Next ==
  \/ ExtractUnit
  \/ NormalizeRow
  \/ NormalizeAgain
  \/ ParseFullAddress
  \/ StandardizeState
  \/ StandardizeZip
  \/ ReplaceSuffixesAndDirs
  \/ OpenCsv
  \/ WriteRow

Spec == Init /\ [][Next]_vars

\* for row_idx, row in enumerate(reader, start=1): a row is left to read, which is
\* when WriteRow is enabled, and a step of the loop, which is WriteRow seen through
\* the row index
MoreRows == op = "process_csv" /\ locals.i < Len(arg.rows)

RowStep == MoreRows /\ locals'.i = locals.i + 1

\* the for loop runs until the reader is exhausted: weak fairness of WriteRow, with
\* ENABLED <<WriteRow>>_vars written out as MoreRows
FairSpec == Spec /\ ([]<>(~MoreRows) \/ []<><<RowStep>>_vars)

(***************************************************************************)
(* Vocabulary of the properties.                                           *)
(***************************************************************************)
\* the text handed to parse_full_address ("" when the value is absent)
FullText == IF arg.kind = "full" /\ arg.full.some THEN arg.full.val ELSE ""

\* the comma-separated segments of the text, trimmed, empty ones dropped
Segments == comma_parts(FullText)

\* t is written as a ZIP: five digits, or five digits, a hyphen and four digits
IsDigits(t) == t # "" /\ \A i \in 1..Len(t) : Ch(t, i) \in DIGIT

ZipShape(t) ==
  \/ Len(t) = 5 /\ IsDigits(t)
  \/ Len(t) = 10 /\ IsDigits(SubSeq(t, 1, 5)) /\ Ch(t, 6) = "-" /\ IsDigits(SubSeq(t, 7, 10))

\* the spans <<i, e>> of t where the ZIP pattern matches: ZIP-shaped text that
\* ends on a word boundary
ZipSpans(t) ==
  {sp \in {<<i, i + d>> : i \in 1..Len(t), d \in {4, 9}} :
     /\ sp[2] <= Len(t)
     /\ ZipShape(SubSeq(t, sp[1], sp[2]))
     /\ AtWordBoundary(t, sp[2])}

\* the first ZIP match of t: the leftmost start, and there the longer form
FirstZipStart(t) == Min({sp[1] : sp \in ZipSpans(t)})
FirstZipEnd(t) == Max({sp[2] : sp \in {q \in ZipSpans(t) : q[1] = FirstZipStart(t)}})
FirstZip(t) == SubSeq(t, FirstZipStart(t), FirstZipEnd(t))
BeforeFirstZip(t) == strip(SubSeq(t, 1, FirstZipStart(t) - 1))

\* the street and unit the splitter holds are those the Unit Extractor gives for text
StreetAndUnitOf(text) ==
  /\ locals.street = extract_unit(text).street
  /\ locals.unit = OrEmpty(extract_unit(text).unit)

Parsed == op = "parse_full_address"

(***************************************************************************)
(* C1.  splitFullAddress on "456 Elm St Apt 4B, Smallville, Illinois,      *)
(* 60606-1234".                                                            *)
(***************************************************************************)
C1_Example == "456 Elm St Apt 4B, Smallville, Illinois, 60606-1234"

\* state and ZIP are two separate trailing segments after a city segment
StateAndZipSegments ==
  /\ Len(Segments) >= 3
  /\ ZipShape(Segments[Len(Segments)])
  /\ ZipSpans(Segments[Len(Segments) - 1]) = {}

\* C1: the example yields street "456 ELM ST",
\* unit "APT 4B", city "SMALLVILLE", state "IL", zip "60606-1234"; and whenever
\* state and ZIP are two separate trailing comma segments after the city, the
\* city segment is reported as city, the state segment as state and the ZIP
\* segment as zip.
C1_AsStated ==
  (Parsed /\ StateAndZipSegments) =>
    /\ result.city = upper_and_cleanup(Segments[Len(Segments) - 2])
    /\ result.state = standardize_state_parser(Segments[Len(Segments) - 1])
    /\ result.zip = Segments[Len(Segments)]
    /\ (FullText = C1_Example =>
          result = Components("456 ELM ST", "APT 4B", "SMALLVILLE", "IL", "60606-1234"))

(***************************************************************************)
(* C2.  The Address Normalizer applied to its own output.                  *)
(***************************************************************************)
\* C2 as the specification states it: normalizing the five components a
\* normalization returned gives the same five components again, for every input.
C2_Idempotent ==
  op = "normalize_again" => result = prev

(***************************************************************************)
(* C3.  splitFullAddress on a text of three or more segments.              *)
(***************************************************************************)
\* C3: with three or more non-empty comma segments the last segment is the
\* state+ZIP tail, the second-to-last is the city, and the earlier segments,
\* rejoined, are the street portion given to the Unit Extractor; in the tail the
\* first ZIP match is the zip and the trimmed text before it the state; a tail
\* without a ZIP match is the state as a whole and the zip is empty.
C3_ThreeOrMoreSegments ==
  (Parsed /\ Len(Segments) >= 3) =>
    /\ locals.city = Segments[Len(Segments) - 1]
    /\ StreetAndUnitOf(join(", ", SubSeq(Segments, 1, Len(Segments) - 2)))
    /\ IF ZipSpans(Segments[Len(Segments)]) # {}
       THEN /\ locals.zipc = FirstZip(Segments[Len(Segments)])
            /\ locals.state = BeforeFirstZip(Segments[Len(Segments)])
       ELSE /\ locals.zipc = ""
            /\ locals.state = Segments[Len(Segments)]
    /\ result = standardize_address_components_local_parser(
                  locals.street, locals.unit, locals.city, locals.state, locals.zipc)

C3_Witness ==
  /\ Parsed
  /\ Len(Segments) >= 3
  /\ Segments[Len(Segments) - 1] = "Smallville"
  /\ locals.city = "Smallville"
  /\ locals.state = "Bigcity TX"
  /\ locals.zipc = "73301"
  /\ locals.unit = "APT 4B"

(***************************************************************************)
(* C4.  splitFullAddress on a text of exactly two segments.                *)
(***************************************************************************)
C4_Example == "100 North Broadway Suite 200, Bigcity TX 73301"

\* the second segment without its first ZIP match and what follows
CityAndState(right) ==
  IF ZipSpans(right) # {} THEN BeforeFirstZip(right) ELSE right

\* C4: with exactly two non-empty comma segments the first segment is the
\* street portion given to the Unit Extractor; in the second segment the first
\* ZIP match is the zip, the last whitespace token of the text before it is the
\* state and the tokens before that one, joined, are the city; the example
\* yields street "100 N BROADWAY", unit "STE 200", city "BIGCITY", state "TX",
\* zip "73301".
C4_TwoSegments ==
  (Parsed /\ Len(Segments) = 2) =>
    LET tokens == split_ws(CityAndState(Segments[2])) IN
    /\ StreetAndUnitOf(Segments[1])
    /\ locals.zipc = (IF ZipSpans(Segments[2]) # {} THEN FirstZip(Segments[2]) ELSE "")
    /\ IF tokens = <<>> THEN locals.state = "" /\ locals.city = ""
       ELSE /\ locals.state = tokens[Len(tokens)]
            /\ locals.city = join(" ", SubSeq(tokens, 1, Len(tokens) - 1))
    /\ result = standardize_address_components_local_parser(
                  locals.street, locals.unit, locals.city, locals.state, locals.zipc)
    /\ (FullText = C4_Example =>
          result = Components("100 N BROADWAY", "STE 200", "BIGCITY", "TX", "73301"))

C4_Witness ==
  /\ Parsed
  /\ FullText = C4_Example
  /\ Len(Segments) = 2
  /\ locals.city = "Bigcity"
  /\ locals.state = "TX"
  /\ result.address2 = "STE 200"

(***************************************************************************)
(* C5.  splitFullAddress on a text without digits and commas.              *)
(***************************************************************************)
NoDigitNoComma(t) == \A i \in 1..Len(t) : Ch(t, i) \notin DIGIT \cup {","}

\* C5 as the specification states it: for a text with no digit and no comma the
\* call does not raise, the street is the Lexical Cleaner's output for the text,
\* and city, state and zip are empty.
C5_AsStated ==
  (Parsed /\ arg.full.some /\ NoDigitNoComma(FullText)) =>
    /\ result # Raised
    /\ result.address1 = upper_and_cleanup(FullText)
    /\ result.city = "" /\ result.state = "" /\ result.zip = ""

\* C5, amended: for a text with no digit and no comma the call does not raise
\* and returns what the Address Normalizer returns for that text as the street
\* with every other field empty: the unit is extracted from the Lexical Cleaner's
\* output, directionals and suffixes are abbreviated, and city, state and zip
\* are empty.
C5_NoDigitNoComma ==
  (Parsed /\ arg.full.some /\ NoDigitNoComma(FullText)) =>
    /\ result # Raised
    /\ result = standardize_address_components_local_parser(FullText, "", "", "", "")
    /\ result.city = "" /\ result.state = "" /\ result.zip = ""

C5_Witness ==
  /\ Parsed
  /\ FullText = "Main Apt B"
  /\ NoDigitNoComma(FullText)
  /\ result = Components("MAIN", "APT B", "", "", "")

(***************************************************************************)
(* C6.  splitFullAddress is total.                                         *)
(***************************************************************************)
IsText(x) == x \in STRING

Extracted == op = "extract_unit"

\* the whitespace-separated tokens of the street line, commas read as spaces
LineTokens == IF arg.kind = "line" THEN split_ws(replace(arg.text, ",", " ")) ELSE <<>>

\* the comma-replaced, whitespace-collapsed line
CollapsedLine == join(" ", LineTokens)

DesignatorTokens == {UNIT_DESIGNATORS[k] : k \in 1..Len(UNIT_DESIGNATORS)}

IsDesignator(tok) == upper(tok) \in DesignatorTokens

IsValue(tok) == tok # "" /\ \A i \in 1..Len(tok) : Ch(tok, i) \in VALUE

\* tokens j and j+1 are a designator followed by a value
PairAt(j) ==
  /\ j >= 1 /\ j < Len(LineTokens)
  /\ IsDesignator(LineTokens[j])
  /\ IsValue(LineTokens[j + 1])

EndsWithPair == PairAt(Len(LineTokens) - 1)

Canonical(d) ==
  IF d = "APARTMENT" THEN "APT"
  ELSE IF d = "SUITE" THEN "STE"
  ELSE IF d = "#" THEN "APT"
  ELSE d

\* the unit written by the pair that ends the line, and the line without that pair
EndUnit ==
  Canonical(upper(LineTokens[Len(LineTokens) - 1])) \o " "
    \o upper(LineTokens[Len(LineTokens)])

BeforeEndPair == join(" ", SubSeq(LineTokens, 1, Len(LineTokens) - 2))

IsPOBoxLine == POBOX_RE_search(CollapsedLine)

(***************************************************************************)
(* C7.  A line that ends with a designator and a value.                    *)
(***************************************************************************)
\* C7: when a street line (not a PO-Box line) ends with a unit-designator token
\* followed by an alphanumeric/hyphen value, extractUnit returns the trimmed
\* text before the designator as the street and "<DESIGNATOR> <VALUE>" as the
\* unit, the designator canonicalized (APARTMENT to APT, SUITE to STE, bare # to
\* APT) and the value upper-cased; "456 ELM ST APT 4B" gives
\* ("456 ELM ST", "APT 4B").
C7_TrailingPair ==
  (Extracted /\ EndsWithPair /\ ~IsPOBoxLine) =>
    /\ result = [street |-> BeforeEndPair, unit |-> Some(EndUnit)]
    /\ (arg.text = "456 ELM ST APT 4B" =>
          result = [street |-> "456 ELM ST", unit |-> Some("APT 4B")])

(***************************************************************************)
(* C8.  A pair at the end and another pair earlier in the line.            *)
(***************************************************************************)
EarlierPair == \E j \in 1..(Len(LineTokens) - 3) : PairAt(j)

\* C8: when a street line (not a PO-Box line) holds a designator-value pair at
\* its end and another pair earlier, extractUnit returns the pair at the end as
\* the unit and removes only that pair: the earlier pair stays in the street.
C8_TrailingPreferred ==
  (Extracted /\ EndsWithPair /\ EarlierPair /\ ~IsPOBoxLine) =>
    /\ result.unit = Some(EndUnit)
    /\ result.street = BeforeEndPair

(***************************************************************************)
(* C9.  A line without a designator word.                                  *)
(***************************************************************************)
LETTER == UPPER \cup LOWER

\* the words of the line: its maximal runs of letters
LineWords ==
  {SubSeq(CollapsedLine, i, RunEnd(CollapsedLine, i, LETTER)) :
     i \in {j \in 1..Len(CollapsedLine) :
              Ch(CollapsedLine, j) \in LETTER /\ Ch(CollapsedLine, j - 1) \notin LETTER}}

NoDesignatorWord ==
  /\ \A w \in LineWords : ~IsDesignator(w)
  /\ \A i \in 1..Len(CollapsedLine) : Ch(CollapsedLine, i) # "#"

\* C9: for a street line in which no word is a unit-designator token,
\* extractUnit returns the comma-replaced, whitespace-collapsed line unchanged
\* and no unit; a word that only begins with the letters of a designator is not
\* a designator token; "100 MAIN ST" gives ("100 MAIN ST", None).
C9_NoDesignator ==
  (Extracted /\ NoDesignatorWord) =>
    /\ result = [street |-> CollapsedLine, unit |-> None]
    /\ (arg.text = "100 MAIN ST" => result = [street |-> "100 MAIN ST", unit |-> None])

(***************************************************************************)
(* C10.  PO-Box lines.                                                     *)
(***************************************************************************)
\* C10: for a line that matches the PO-Box pattern, extractUnit returns the
\* (comma-replaced, whitespace-collapsed) line and no unit, whatever
\* designator-value pairs the line also contains; "PO BOX 789" gives
\* ("PO BOX 789", None).
C10_POBox ==
  (Extracted /\ POBOX_RE_search(arg.text)) =>
    /\ result = [street |-> CollapsedLine, unit |-> None]
    /\ (arg.text = "PO BOX 789" => result = [street |-> "PO BOX 789", unit |-> None])

C10_Witness ==
  /\ Extracted
  /\ POBOX_RE_search(arg.text)
  /\ EndsWithPair
  /\ result = [street |-> CollapsedLine, unit |-> None]

(***************************************************************************)
(* Vocabulary of the State and ZIP Standardizers' properties.              *)
(***************************************************************************)
StateStandardized == op = "standardize_state"

\* the state text upper-cased and trimmed, and cleaned: punctuation stripped and
\* whitespace collapsed as well
UpperState == upper(strip(arg.text))
CleanedState == strip(MULTISPACE_RE_sub(KeepOnly(UpperState, WORD \cup SPACE)))

IsTwoLetterCode(t) == Len(t) = 2 /\ \A i \in 1..2 : Ch(t, i) \in LETTER

\* the State Table of the copy in use maps key to value
Translates(key, value) ==
  \E k \in 1..Len(StateTableOf(copy)) : StateTableOf(copy)[k] = <<key, value>>

IsKey(key) == \E value \in TableValues(StateTableOf(copy)) : Translates(key, value)

\* t without one trailing " STATE"
WithoutStateSuffix(t) ==
  IF Len(t) >= 6 /\ SubSeq(t, Len(t) - 5, Len(t)) = " STATE"
  THEN SubSeq(t, 1, Len(t) - 6) ELSE t

(***************************************************************************)
(* C11.  The State Table's keys and values.                                *)
(***************************************************************************)
\* C11: for every full-name key of the State Table standardizeState(key) is the
\* table's 2-letter value, and for every 2-letter value of the table
\* standardizeState(value) is that value; for the table of each copy.
C11_TableEntries ==
  StateStandardized =>
    /\ (IsKey(arg.text) => Translates(arg.text, result))
    /\ (arg.text \in TableValues(StateTableOf(copy)) => result = arg.text)

C11_Witness ==
  /\ StateStandardized
  /\ copy = "fulladdress_parser"
  /\ arg.text = "ILLINOIS"
  /\ IsKey(arg.text)
  /\ result = "IL"

(***************************************************************************)
(* C12.  The pass-through of the State Standardizer.                       *)
(***************************************************************************)
NoLookupFinds ==
  /\ ~IsTwoLetterCode(UpperState)
  /\ ~IsKey(CleanedState)
  /\ ~IsKey(WithoutStateSuffix(CleanedState))
  /\ ~IsKey(replace(CleanedState, " STATE", ""))

\* C12: when the input is not a 2-letter code and neither the direct lookup nor
\* the retry finds it in the State Table, standardizeState returns the cleaned
\* input: upper-cased, punctuation stripped, whitespace collapsed.
C12_CleanedPassThrough ==
  (StateStandardized /\ NoLookupFinds) => result = CleanedState

(***************************************************************************)
(* C13.  The retry without a trailing " STATE".                            *)
(***************************************************************************)
DirectLookupFails == ~IsTwoLetterCode(UpperState) /\ ~IsKey(CleanedState)

\* C13: when the direct lookup fails the lookup is retried without a trailing
\* " STATE" of the cleaned input, so "Washington State" gives "WA"; only a
\* suffix at the end is stripped: when the cleaned input without its trailing
\* " STATE" is no key, the input is not translated.
C13_TrailingStateSuffix ==
  (StateStandardized /\ DirectLookupFails) =>
    /\ (IsKey(WithoutStateSuffix(CleanedState)) =>
          Translates(WithoutStateSuffix(CleanedState), result))
    /\ (~IsKey(WithoutStateSuffix(CleanedState)) =>
          result \in {UpperState, CleanedState})
    /\ (arg.text = "Washington State" /\ copy # "fulladdress_parser" => result = "WA")

(***************************************************************************)
(* C14.  The ZIP Standardizer.                                             *)
(***************************************************************************)
ZipStandardized == op = "standardize_zip"

DigitsOf(t) == KeepOnly(t, DIGIT)

\* C14: standardizeZip removes every non-digit; nine digits give the first five,
\* a hyphen and the last four; five digits give those five; any other count
\* gives the digit string when it is non-empty and the trimmed input when no
\* digit remains; "123456789" gives "12345-6789" and "12345" gives "12345".
C14_ZipByDigitCount ==
  ZipStandardized =>
    /\ result =
         (IF Len(DigitsOf(arg.text)) = 9
          THEN SubSeq(DigitsOf(arg.text), 1, 5) \o "-" \o SubSeq(DigitsOf(arg.text), 6, 9)
          ELSE IF Len(DigitsOf(arg.text)) = 5 THEN DigitsOf(arg.text)
          ELSE IF DigitsOf(arg.text) # "" THEN DigitsOf(arg.text)
          ELSE strip(arg.text))
    /\ (arg.text = "123456789" => result = "12345-6789")
    /\ (arg.text = "12345" => result = "12345")

C14_Witness ==
  /\ ZipStandardized
  /\ arg.text = "abc 0"
  /\ result = "0"

(***************************************************************************)
(* C15.  A ZIP text without digits.                                        *)
(***************************************************************************)
\* C15: standardizeZip of a non-empty input that contains no digit is the empty
\* string; standardizeZip("abc") is "".
C15_NoDigitGivesEmpty ==
  (ZipStandardized /\ arg.text # "" /\ DigitsOf(arg.text) = "") => result = ""

(***************************************************************************)
(* C16, C17.  The zip and state fields of every AddressComponents value.   *)
(***************************************************************************)
ReturnsComponents == op \in {"normalize", "normalize_again", "parse_full_address"}

\* C16: in every AddressComponents value the Address Normalizer or the
\* Full-Address Splitter returns, the zip field is empty, exactly 5 digits, or
\* 5 digits, a hyphen and 4 digits.
C16_ZipField ==
  ReturnsComponents => (result.zip = "" \/ ZipShape(result.zip))

\* C17: in every AddressComponents value the Address Normalizer or the
\* Full-Address Splitter returns, the state field is empty or a 2-letter
\* alphabetic code.
C17_StateField ==
  ReturnsComponents => (result.state = "" \/ IsTwoLetterCode(result.state))

(***************************************************************************)
(* The CSV processors and the remote verifier.                             *)
(***************************************************************************)
Processing == op = "process_csv"

Standardizers == {"address_standardizer", "address_standardizer_with_usps"}

\* the kinds of failure of a verifier response
TransportError(r) == r.raises # ""

Non200(r) == r.raises = "" /\ r.status # 200

Unparsable(r) == r.raises = "" /\ r.status = 200 /\ ~r.content.parses

Answered(r) == r.raises = "" /\ r.status = 200 /\ r.content.parses

ServiceError(r) == Answered(r) /\ r.content.root.Error.some

MissingAddress(r) ==
  Answered(r) /\ ~r.content.root.Error.some /\ ~r.content.root.Address.some

Fails(r) ==
  TransportError(r) \/ Non200(r) \/ Unparsable(r) \/ ServiceError(r) \/ MissingAddress(r)

\* the verifier failed on the row just written
FailedCall == locals.call.response.some /\ Fails(locals.call.response.val)

\* the cells of input row j under the five address columns, normalized locally
LocallyNormalized(j) ==
  LET row == arg.rows[j]
      cell(k) == IF arg.columns[k] \in DOMAIN row THEN row[arg.columns[k]] ELSE ""
  IN  Normalize(copy, Components(cell(1), cell(2), cell(3), cell(4), cell(5)))

\* the five component cells of output row j: the last five fields of the writer
WrittenComponents(j) ==
  SubSeq(result.rows[j], Len(result.fieldnames) - 4, Len(result.fieldnames))

FiveOf(comp) == <<comp.address1, comp.address2, comp.city, comp.state, comp.zip>>

\* C18, for the row just written: when verification is enabled and the verifier
\* failed for it, the failure came back as a tagged result with a non-empty message
\* and the five components written for the row are the locally normalized ones
C18_FallBack ==
  Processing /\ copy \in Standardizers =>
    /\ Len(result.rows) = locals.i
    /\ FailedCall =>
         /\ locals.call.verdict.some
         /\ ~locals.call.verdict.val.ok
         /\ locals.call.verdict.val.err.some
         /\ locals.call.verdict.val.err.val # ""
         /\ WrittenComponents(locals.i) = FiveOf(LocallyNormalized(locals.i))

FailedBeforeLast(j) ==
  Processing /\ copy \in Standardizers /\ FailedCall /\ locals.i = j /\ j < Len(arg.rows)

Written(j) == Processing /\ Len(result.rows) >= j

\* C18: when remote verification is enabled and the verifier fails for a row
\* (transport error, non-200 status, unparsable response, service error, missing
\* Address element), call_usps_verify returns a tagged failure with a non-empty
\* message, the five components written for that row are the locally normalized
\* ones, and the next row, when there is one, is processed
C18_FailureFallsBack ==
  /\ []C18_FallBack
  /\ \A j \in 1..MaxRows : FailedBeforeLast(j) ~> Written(j + 1)

\* a service error on the second row, after a first row that fell back as well:
\* both rows are written with their local components
C18_Witness ==
  /\ Processing
  /\ copy = "address_standardizer"
  /\ locals.i = 2
  /\ FailedCall /\ ServiceError(locals.call.response.val)
  /\ Len(result.rows) = 2
  /\ WrittenComponents(1) = FiveOf(LocallyNormalized(1))
  /\ WrittenComponents(2) = FiveOf(LocallyNormalized(2))
  /\ WrittenComponents(2) # <<"", "", "", "", "">>

\* the name generated for the k-th address column, and the name it starts from
Generated(k) == result.fieldnames[Len(arg.header) + k]

BaseName(k) == "std_" \o arg.columns[k]

Suffixed(base, n) == base \o "_" \o ToString(n)

InputColumns == {arg.header[p] : p \in 1..Len(arg.header)}

\* the least n >= 1 for which base_n is no input column
LeastFree(base) ==
  CHOOSE n \in 1..(Len(arg.header) + 1) :
    /\ Suffixed(base, n) \notin InputColumns
    /\ \A m \in 1..(n - 1) : Suffixed(base, m) \in InputColumns

\* C19: in the standardizer's output header a generated name that equals an input
\* column gets a numeric suffix, 1 first and increasing until the name equals no
\* input column (std_address1 becomes std_address1_1), and the input column of that
\* name keeps its place and its cells
C19_SuffixOnCollision ==
  Processing /\ copy = "address_standardizer" =>
    /\ Len(result.fieldnames) = Len(arg.header) + 5
    /\ SubSeq(result.fieldnames, 1, Len(arg.header)) = arg.header
    /\ \A k \in 1..5 :
         /\ Generated(k) \notin InputColumns
         /\ Generated(k) = IF BaseName(k) \in InputColumns
                           THEN Suffixed(BaseName(k), LeastFree(BaseName(k)))
                           ELSE BaseName(k)
    /\ "std_address1" \in InputColumns /\ "std_address1_1" \notin InputColumns
         => Generated(1) = "std_address1_1"
    /\ \A j \in 1..Len(result.rows) : \A p \in 1..Len(arg.header) :
         arg.header[p] \in {BaseName(k) : k \in 1..5}
           => result.rows[j][p] = arg.rows[j][arg.header[p]]

\* the input has std_address1 and std_address1_1: the generated column is
\* std_address1_2, and a row is written with the cell of std_address1 kept
C19_Witness ==
  /\ Processing
  /\ copy = "address_standardizer"
  /\ {"std_address1", "std_address1_1"} \subseteq InputColumns
  /\ Generated(1) = "std_address1_2"
  /\ Len(result.rows) >= 1
  /\ \E p \in 1..Len(arg.header) :
       arg.header[p] = "std_address1" /\ result.rows[1][p] = "kept std_address1"

\* C20: for each of the three CSV processors the output header starts with the input
\* header, every output row holds every input cell unchanged, and the five
\* components sit in five added columns whose names are no input column
C20_InputColumnsKept ==
  Processing =>
    /\ Len(result.fieldnames) = Len(arg.header) + 5
    /\ SubSeq(result.fieldnames, 1, Len(arg.header)) = arg.header
    /\ \A k \in 1..5 : Generated(k) \notin InputColumns
    /\ \A j \in 1..Len(result.rows) : \A p \in 1..Len(arg.header) :
         result.rows[j][p] = arg.rows[j][arg.header[p]]

(***************************************************************************)
(* C21.  A PO-Box street given to the Address Normalizer.                  *)
(***************************************************************************)
Normalized == op = "normalize"

CleanStreet == upper_and_cleanup(arg.row.address1)

CleanStreetTokens == split_ws(CleanStreet)

CleanUnitTokens == split_ws(upper_and_cleanup(arg.row.address2))

\* the long forms of the directional and suffix tables
TableWords ==
  {DIR_MAP[k][1] : k \in 1..Len(DIR_MAP)}
    \cup {SUFFIX_MAP_usps[k][1] : k \in 1..Len(SUFFIX_MAP_usps)}

FixedWord(tok) == IF tok = "POBOX" THEN "PO BOX" ELSE tok

UnitWord(tok) ==
  IF tok = "APARTMENT" THEN "APT" ELSE IF tok = "SUITE" THEN "STE" ELSE tok

\* C21: when the cleaned street is a PO Box line, the street returned is the line
\* with the box word in the fixed form "PO BOX" and no period, everything after it
\* kept (the box number, and a designator-value pair when there is one: no unit
\* is extracted), and the unit returned is the supplied unit with its designator
\* canonicalized
C21_POBoxStreet ==
  (/\ Normalized
   /\ POBOX_RE_search(CleanStreet)
   /\ \A k \in 1..Len(CleanStreetTokens) : CleanStreetTokens[k] \notin TableWords
   /\ \A k \in 1..Len(CleanUnitTokens) : CleanUnitTokens[k] \notin TableWords) =>
    /\ result.address1 =
         join(" ", [k \in 1..Len(CleanStreetTokens) |-> FixedWord(CleanStreetTokens[k])])
    /\ result.address2 =
         join(" ", [k \in 1..Len(CleanUnitTokens) |-> UnitWord(CleanUnitTokens[k])])
    /\ \A i \in 1..Len(result.address1) : Ch(result.address1, i) # "."
    /\ (CleanStreetTokens = <<"PO", "BOX", "789">> => result.address1 = "PO BOX 789")

\* "P.O.Box 789 Apt 4" with no unit supplied: the pair stays in the street
C21_Witness ==
  /\ Normalized
  /\ arg.row.address1 = "P.O.Box 789 Apt 4"
  /\ arg.row.address2 = ""
  /\ result.address1 = "PO BOX 789 APT 4"
  /\ result.address2 = ""

(***************************************************************************)
(* C22.  splitFullAddress on a text without a comma.                       *)
(***************************************************************************)
NoComma(t) == \A i \in 1..Len(t) : Ch(t, i) # ","

\* what is left of the text once the first ZIP match is taken out: the text
\* before it, or the whole text when there is no match
Remainder ==
  IF ZipSpans(collapsed(FullText)) = {} THEN collapsed(FullText)
  ELSE BeforeFirstZip(collapsed(FullText))

RemainderTokens == split_ws(Remainder)

HasDigit(t) == \E i \in 1..Len(t) : Ch(t, i) \in DIGIT

IsAlphabetic(t) == t # "" /\ \A i \in 1..Len(t) : Ch(t, i) \in LETTER

LastToken == RemainderTokens[Len(RemainderTokens)]

SplitsState ==
  /\ \E k \in 1..Len(RemainderTokens) : HasDigit(RemainderTokens[k])
  /\ Len(RemainderTokens) >= 3
  /\ \/ Len(LastToken) = 2 /\ IsAlphabetic(LastToken)
     \/ IsAlphabetic(LastToken)

\* C22: for a text with no comma, the splitter holds the last remaining token as
\* the state, every token but the last two as the street and no city exactly when
\* some remaining token has a digit, at least 3 tokens remain and the last token
\* is two letters or purely alphabetic; otherwise the whole remainder is the
\* street and city and state are empty
C22_NoCommaSplit ==
  (Parsed /\ arg.full.some /\ FullText # "" /\ NoComma(FullText) /\ locals # Exc) =>
    IF SplitsState
    THEN /\ locals.state = LastToken
         /\ locals.street = join(" ", SubSeq(RemainderTokens, 1, Len(RemainderTokens) - 2))
         /\ locals.city = ""
    ELSE /\ locals.street = Remainder
         /\ locals.city = ""
         /\ locals.state = ""

(***************************************************************************)
(* C23.  A designator-value pair followed by further text.                 *)
(***************************************************************************)
\* the first pair of the line, when the line has one
FirstPair == Min({j \in 1..Len(LineTokens) : PairAt(j)})

HasMidPair ==
  /\ \E j \in 1..Len(LineTokens) : PairAt(j)
  /\ ~EndsWithPair
  /\ FirstPair + 1 < Len(LineTokens)

\* the unit a trailing match builds from the tokens of the first pair
PairUnit ==
  Canonical(upper(LineTokens[FirstPair])) \o " " \o upper(LineTokens[FirstPair + 1])

AroundFirstPair ==
  join(" ", SubSeq(LineTokens, 1, FirstPair - 1)
              \o SubSeq(LineTokens, FirstPair + 2, Len(LineTokens)))

\* C23: when a designator-value pair "D V" of a street line (not a PO-Box line) is
\* followed by further text, extractUnit returns the unit "<canonical D> <V>" a
\* trailing match builds for the same pair, and the street is the text before and
\* the text after the pair, joined and whitespace-collapsed
C23_MidStringPair ==
  (Extracted /\ ~IsPOBoxLine /\ HasMidPair) =>
    /\ result.unit = Some(PairUnit)
    /\ result.street = AroundFirstPair

(***************************************************************************)
(* C24.  canonicalize (replace_suffixes_and_dirs).                         *)
(***************************************************************************)
Canonicalized == op = "replace_suffixes_and_dirs"

\* the Directional Table followed by the Suffix Table of the copy
CanonTable ==
  DIR_MAP \o (IF copy = "address_standardizer_with_usps" THEN SUFFIX_MAP_usps ELSE SUFFIX_MAP)

EntriesFor(tok) == {k \in 1..Len(CanonTable) : CanonTable[k][1] = tok}

Abbreviated(tok) ==
  IF EntriesFor(tok) = {} THEN tok ELSE CanonTable[Min(EntriesFor(tok))][2]

\* C24: canonicalize replaces every word of the text that is the long form of an
\* entry of the Directional Table or the Suffix Table by the entry's abbreviation,
\* a dotted directional (N., S., E., W.) before a space or at the end included,
\* and leaves every other word as it is, also one that contains a long form
\* (NORTHERN, STREETER)
C24_WholeWords ==
  Canonicalized =>
    result = join(" ", [k \in 1..Len(split_ws(arg.text)) |->
                          Abbreviated(split_ws(arg.text)[k])])

(***************************************************************************)
(* C25.  The calls of the remote verifier.                                 *)
(***************************************************************************)
VerificationOff == ~arg.use_usps \/ ~arg.userid.some \/ arg.userid.val = ""

\* C25: while a CSV is processed the verifier has been called at most once for
\* each row read, the call for a row is given the row's locally normalized
\* street, unit, city, state and zip, and the verifier is never called when
\* verification is disabled or no user id is available
C25_VerifierCalls ==
  Processing /\ copy \in Standardizers =>
    /\ locals.invoked <= locals.i
    /\ VerificationOff =>
         locals.invoked = 0 /\ ~locals.args.some /\ ~locals.call.response.some
    /\ locals.args.some =>
         /\ locals.i >= 1
         /\ locals.args.val = FiveOf(LocallyNormalized(locals.i))

\* two rows read with verification on: two calls, the second with the local
\* components of the second row, which are not the cells read
C25_Witness ==
  /\ Processing
  /\ copy = "address_standardizer"
  /\ ~VerificationOff
  /\ locals.i = 2
  /\ locals.invoked = 2
  /\ "address1" \in DOMAIN arg.rows[2]
  /\ locals.args = Some(FiveOf(LocallyNormalized(2)))
  /\ locals.args.val[1] # arg.rows[2]["address1"]

(***************************************************************************)
(* C26.  The ZIP splitFullAddress extracts stands on word boundaries.      *)
(***************************************************************************)
\* the text the splitter searches for the ZIP: the last segment of two or more,
\* the whole collapsed text otherwise
ZipSearched ==
  IF Len(Segments) >= 2 THEN Segments[Len(Segments)] ELSE collapsed(FullText)

\* C26: the ZIP the splitter extracts is the first occurrence of five digits,
\* optionally followed by a hyphen and four digits, in the searched text, and
\* no digit immediately precedes or follows it there: it is never a fragment
\* of a longer run of digits
C26_ZipOnWordBoundaries ==
  (Parsed /\ arg.full.some /\ FullText # "" /\ locals # Exc
     /\ ZipSpans(ZipSearched) # {}) =>
    /\ locals.zipc = FirstZip(ZipSearched)
    /\ Ch(ZipSearched, FirstZipStart(ZipSearched) - 1) \notin DIGIT
    /\ Ch(ZipSearched, FirstZipEnd(ZipSearched) + 1) \notin DIGIT

(***************************************************************************)
(* C27.  The five generated column names.                                  *)
(***************************************************************************)
\* C27: whatever the input header and the five configured column names, the
\* standardizer's five generated column names are pairwise distinct and none is
\* an input column, so that each written row holds every input cell and, with
\* verification off, the five local components, none overwritten by another
C27_GeneratedNamesDistinct ==
  Processing /\ copy = "address_standardizer" =>
    /\ \A k \in 1..5 : Generated(k) \notin InputColumns
    /\ \A k, m \in 1..5 : k # m => Generated(k) # Generated(m)
    /\ \A j \in 1..Len(result.rows) :
         /\ \A p \in 1..Len(arg.header) : result.rows[j][p] = arg.rows[j][arg.header[p]]
         /\ VerificationOff =>
              \A k \in 1..5 :
                result.rows[j][Len(arg.header) + k] = FiveOf(LocallyNormalized(j))[k]

(***************************************************************************)
(* C28.  The three copies of the Address Normalizer.                       *)
(***************************************************************************)
\* C28: for every input (street, unit, city, state, zip) the normalizer of
\* address_standardizer.py, the first one of address_standardizer_with_usps.py
\* and the one the Full-Address Splitter uses return the same five components
C28_CopiesEquivalent ==
  Normalized => \A c \in Copies : Normalize(c, arg.row) = result
====
